---- MODULE Spec2Model ----
(***************************************************************************)
(* Model of the streaming zip export of irods-open-access-repo:            *)
(*   etl/irodsManager/irodsUtils.py        size predictor, zip builder,    *)
(*                                         pull readers                    *)
(*   etl/dataverseManager/dataverseClient.py   import_files orchestration  *)
(*                                                                         *)
(* Three specifications share the definitions below:                       *)
(*   SpecZip     collection walk -> collection_zip_preparation ->          *)
(*               zip_collection, with sizes around ZIP64_LIMIT             *)
(*   SpecStream  zip_collection driven through archive_generator and       *)
(*               pulled through IteratorAsBinaryFile.read                  *)
(*   SpecExport  DataverseClient.import_files with its checksum pool       *)
(***************************************************************************)
EXTENDS Integers, Sequences, FiniteSets, TLC

(***************************************************************************)
(* Byte counts.  zipfile.ZIP64_LIMIT is 2^31 - 1, the largest integer TLC  *)
(* represents, and the program adds to it (Python integers are unbounded). *)
(* A byte count is therefore written k * ZIP64_LIMIT + d as the record     *)
(* [k, d], with |d| small against ZIP64_LIMIT; sums and comparisons of     *)
(* such numbers are exact.                                                 *)
(***************************************************************************)
Big(k, d) == [k |-> k, d |-> d]

B(n) == Big(0, n)

ZIP64_LIMIT == Big(1, 0)

Add(a, b) == Big(a.k + b.k, a.d + b.d)

AddN(a, n) == Big(a.k, a.d + n)

GT(a, b) == a.k > b.k \/ (a.k = b.k /\ a.d > b.d)

GE(a, b) == a.k > b.k \/ (a.k = b.k /\ a.d >= b.d)

RECURSIVE SumBig(_)
SumBig(s) == IF s = <<>> THEN B(0) ELSE Add(Head(s), SumBig(Tail(s)))

(***************************************************************************)
(* Paths.  A path is the sequence of its characters, each character given  *)
(* by the number of bytes of its UTF-8 encoding.  len(file_path) counts    *)
(* characters; zipfile writes the encoded file name.                       *)
(***************************************************************************)
PyLen(path) == Len(path)

RECURSIVE EncodedLen(_)
EncodedLen(path) == IF path = <<>> THEN 0 ELSE Head(path) + EncodedLen(Tail(path))

(***************************************************************************)
(* Digests.  A file's content is an identifier; sha256 maps contents to    *)
(* digests, distinct contents to distinct digests.                         *)
(***************************************************************************)
Contents == {"c1", "c2"}

sha256(c) == IF c = "c1" THEN "sha_c1" ELSE "sha_c2"

(***************************************************************************)
(* State.                                                                  *)
(*   collection      the files returned by collection.walk(), in walk      *)
(*                   order; a file is [path, size, actual, content,        *)
(*                   chksum]: declared size, bytes the remote read         *)
(*                   delivers, identity of those bytes, and the digest     *)
(*                   rulemanager.rule_checksum returns for the path        *)
(*   pc              position of the export                                *)
(*   sorted_path, data, size, zip64   locals of collection_zip_preparation *)
(*   blocks          history of the calc_zip_block calls: the zip64        *)
(*                   argument and the result, per entry                    *)
(*   upload_success  the dict shared by preparation, builder and validator *)
(*   zip_buffer      the zipfile.ZipFile object of zip_collection          *)
(*   gen, remaining  zip_collection as a generator: the yield it is        *)
(*                   suspended at, and the bytes of the open remote file   *)
(*                   not read yet                                          *)
(*   stream          UnseekableStream._buffer                              *)
(*   buffer, len, md5   IteratorAsBinaryFile: unread bytes of _buffer,     *)
(*                   len, and the bytes fed to md5 so far                  *)
(*   returned, last  the bytes returned by the reads so far, and the last  *)
(*                   read: <<size asked, number of bytes returned>>, <<>>  *)
(*                   before the first read                                 *)
(*   epc             position of DataverseClient.import_files              *)
(*   dataset_deposit_url, deletion, pool, response                         *)
(*                   fields and locals of DataverseClient; the response is *)
(*                   <<>> until requests.post returns                      *)
(*   pool_result     the AsyncResult of run_checksum: whether the worker   *)
(*                   has returned, and the mapping it has built so far     *)
(*   chksums         <<>> until pool_result.get() returns, then <<dict>>   *)
(*   validated_checksum, validated_upload   "None" until assigned          *)
(*   status          the update_metadata_status(old, new) calls so far     *)
(*   deleted, exported   rule_deletion, _final_report have been called     *)
(*   data_export     the argument of do_export                             *)
(*   fault           the remote read that fails: <<>> for none, or         *)
(*                   <<i, "open">>, <<i, "read">> when opening or reading  *)
(*                   the i-th file of the plan raises                      *)
(*   raised          the exception that left do_export, "None" if none     *)
(*   status_cleanups number of calls of irods_client.status_cleanup        *)
(*   cleaned         rule_close and session.cleanup have been called       *)
(*   outcome         how init_export ended: "None" while it runs, then     *)
(*                   "returned" or the exception its caller receives       *)
(*   emails          number of calls of email_confirmation                 *)
(*   reader          a MultiPurposeReader, "None" when there is none: its  *)
(*                   len, the size and the read position of _raw, the      *)
(*                   bytes fed to md5 and to sha so far, and the argument  *)
(*                   and the result of its last read                       *)
(*                                                                         *)
(* Bytes in flight are runs of archive offsets: <<lo, hi>> stands for the  *)
(* bytes the builder wrote at offsets lo .. hi-1, and a byte string is a   *)
(* sequence of runs.                                                       *)
(***************************************************************************)
VARIABLES collection, pc, sorted_path, data, size, zip64, blocks,
          upload_success, zip_buffer,
          gen, remaining, stream, buffer, len, md5, returned, last,
          epc, dataset_deposit_url, deletion, pool, pool_result, chksums,
          response, validated_checksum, validated_upload, status,
          deleted, exported,
          data_export, fault, raised, status_cleanups, cleaned, outcome,
          reader, emails

prepVars == <<sorted_path, data, size, zip64, blocks>>

zipVars == <<collection, pc, sorted_path, data, size, zip64, blocks,
             upload_success, zip_buffer>>

streamVars == <<gen, remaining, stream, buffer, len, md5, returned, last>>

exportVars == <<epc, dataset_deposit_url, deletion, pool, pool_result, chksums,
                response, validated_checksum, validated_upload, status,
                deleted, exported>>

callVars == <<data_export, fault, raised, status_cleanups, cleaned, outcome>>

readerVars == <<reader, emails>>

vars == <<zipVars, streamVars, exportVars, callVars, readerVars>>

(***************************************************************************)
(* Bounds of the model.                                                    *)
(***************************************************************************)
MaxFiles == 2

MaxPathLen == 2

(***************************************************************************)
(* The files of SpecZip: declared sizes around ZIP64_LIMIT, every read     *)
(* delivering the declared size.                                           *)
(***************************************************************************)
Paths == {[i \in 1..n |-> 1] : n \in 1..MaxPathLen} \cup {<<2>>}

ZipSizes == {B(0), B(3), Big(1, -123), Big(1, -122), Big(1, -75), Big(1, -74),
             Big(1, 0), Big(1, 1)}

ZipFiles == {[path |-> p, size |-> s, actual |-> s, content |-> "c1",
              chksum |-> sha256("c1")] : p \in Paths, s \in ZipSizes}

Collections(files, n) ==
    {c \in UNION {[1..m -> files] : m \in 0..n} :
        \A i, j \in 1..Len(c) : i # j => c[i].path # c[j].path}

(***************************************************************************)
(* sort_path_by_size: a dict keyed by file.size (a later file of the same  *)
(* size replaces the earlier one), then sorted by size, largest first.     *)
(***************************************************************************)
RECURSIVE sort_update(_, _)
sort_update(sort, files) ==
    IF files = <<>> THEN sort
    ELSE LET file == Head(files)
         IN  sort_update({e \in sort : e.size # file.size} \cup {file}, Tail(files))

RECURSIVE sorted_reverse(_)
sorted_reverse(sort) ==
    IF sort = {} THEN <<>>
    ELSE LET top == CHOOSE e \in sort : \A o \in sort : GE(e.size, o.size)
         IN  <<top>> \o sorted_reverse(sort \ {top})

sort_path_by_size(coll) == sorted_reverse(sort_update({}, coll))

(***************************************************************************)
(* calc_zip_block(size, file_path, zip64)                                  *)
(***************************************************************************)
calc_zip_block(fsize, file_path, z64) ==
    IF GE(fsize, ZIP64_LIMIT)
    THEN AddN(fsize, (30 + PyLen(file_path) + 24 + 20)
                     + (46 + PyLen(file_path))
                     + (IF z64 THEN 28 ELSE 20))
    ELSE AddN(fsize, (30 + PyLen(file_path) + 24 + 20)
                     + (46 + PyLen(file_path))
                     + (IF z64 THEN 12 ELSE 0))

(***************************************************************************)
(* collection_zip_preparation                                              *)
(***************************************************************************)
\* Mutant of entry_block: the flag is brought up to date before the entry is sized.
entry_block_flag_first(file, z64) ==
    LET flag == z64 \/ GE(Add(size, calc_zip_block(file.size, file.path, z64)), ZIP64_LIMIT)
    IN  [zip64 |-> flag, block |-> calc_zip_block(file.size, file.path, flag)]

\* size += calc_zip_block(file_size, file.path, zip64), with the flag as it
\* stands before this entry
entry_block(file, z64) ==
    [zip64 |-> z64, block |-> calc_zip_block(file.size, file.path, z64)]

\* Mutant of zip64_after: the threshold compared with > instead of >=.
zip64_after_strict(z64, total) == z64 \/ GT(total, ZIP64_LIMIT)

\* if size >= zipfile.ZIP64_LIMIT: zip64 = True
zip64_after(z64, total) == z64 \/ GE(total, ZIP64_LIMIT)

\* Mutant of end_of_central_directory: the ZIP64 records are always counted.
end_of_central_directory_extended(z64) == 22 + (56 + 20)

end_of_central_directory(z64) == IF z64 THEN 22 + (56 + 20) ELSE 22

rule_checksum(file) == file.chksum

dict_update(d, key, val) ==
    [k \in DOMAIN d \cup {key} |-> IF k = key THEN val ELSE d[k]]

dict_get(d, key) == IF key \in DOMAIN d THEN d[key] ELSE "None"

prepare_begin ==
    /\ pc = "prepare"
    /\ sorted_path' = sort_path_by_size(collection)
    /\ data' = <<>>
    /\ size' = B(0)
    /\ zip64' = FALSE
    /\ blocks' = <<>>
    /\ pc' = "prepare_walk"
    /\ UNCHANGED <<collection, upload_success, zip_buffer>>
    /\ UNCHANGED streamVars
    /\ UNCHANGED exportVars
    /\ UNCHANGED callVars
    /\ UNCHANGED readerVars

prepare_entry ==
    /\ pc = "prepare_walk"
    /\ Len(data) < Len(sorted_path)
    /\ LET file == sorted_path[Len(data) + 1]
           call == entry_block(file, zip64)
       IN  /\ data' = Append(data, file)
           /\ size' = Add(size, call.block)
           /\ zip64' = zip64_after(zip64, Add(size, call.block))
           /\ blocks' = Append(blocks, call)
           /\ upload_success' = dict_update(upload_success, file.path, rule_checksum(file))
    /\ UNCHANGED <<collection, pc, sorted_path, zip_buffer>>
    /\ UNCHANGED streamVars
    /\ UNCHANGED exportVars
    /\ UNCHANGED callVars
    /\ UNCHANGED readerVars

prepare_end ==
    /\ pc = "prepare_walk"
    /\ Len(data) = Len(sorted_path)
    /\ size' = AddN(size, end_of_central_directory(zip64))
    /\ pc' = "zip_open"
    /\ UNCHANGED <<collection, sorted_path, data, zip64, blocks, upload_success, zip_buffer>>
    /\ UNCHANGED streamVars
    /\ UNCHANGED exportVars
    /\ UNCHANGED callVars
    /\ UNCHANGED readerVars

(***************************************************************************)
(* zipfile.ZipFile on an unseekable stream, as zip_collection uses it:     *)
(* ZipFile(stream, 'w', ZIP_STORED), open(zip_info, 'w', force_zip64=True),*)
(* dest.write(chunk), leaving the with block, close().  tell counts the    *)
(* bytes written; out lists the records written, in order.                 *)
(***************************************************************************)
ZipFile_new ==
    [tell |-> B(0), start_dir |-> B(0), filelist |-> <<>>, writing |-> <<>>,
     out |-> <<>>]

emit(z, rec) == [z EXCEPT !.tell = Add(@, rec.len), !.out = Append(@, rec)]

\* Local file header 30 + file name + ZIP64 extra 20 (sizes follow the data).
ZipFile_open(z, path, force_zip64) ==
    LET zinfo == [filename |-> path, header_offset |-> z.tell,
                  file_size |-> B(0), zip64 |-> force_zip64]
        hdr == [kind |-> "local", path |-> path, extra |-> IF force_zip64 THEN 1 ELSE 0,
                len |-> B(30 + EncodedLen(path) + (IF force_zip64 THEN 20 ELSE 0))]
    IN  [emit(z, hdr) EXCEPT !.writing = <<zinfo>>]

dest_write(z, n) ==
    [emit(z, [kind |-> "data", path |-> z.writing[1].filename, extra |-> 0, len |-> n])
        EXCEPT !.writing[1].file_size = Add(@, n)]

\* Data descriptor: 24 bytes with zip64, 16 without.
dest_close(z) ==
    LET zinfo == z.writing[1]
        dd == [kind |-> "descriptor", path |-> zinfo.filename, extra |-> 0,
               len |-> B(IF zinfo.zip64 THEN 24 ELSE 16)]
        w == emit(z, dd)
    IN  [w EXCEPT !.start_dir = w.tell, !.filelist = Append(@, zinfo), !.writing = <<>>]

\* Central directory header 46 + file name + ZIP64 extra: two fields when the
\* file size exceeds ZIP64_LIMIT, one more when the header offset does.
centdir_record(zinfo) ==
    LET fields == (IF GT(zinfo.file_size, ZIP64_LIMIT) THEN 2 ELSE 0)
                  + (IF GT(zinfo.header_offset, ZIP64_LIMIT) THEN 1 ELSE 0)
    IN  [kind |-> "central", path |-> zinfo.filename, extra |-> fields,
         len |-> B(46 + EncodedLen(zinfo.filename)
                   + (IF fields > 0 THEN 4 + 8 * fields ELSE 0))]

RECURSIVE write_centdir(_, _)
write_centdir(z, list) ==
    IF list = <<>> THEN z
    ELSE write_centdir(emit(z, centdir_record(Head(list))), Tail(list))

\* _write_end_record: the central directory, then the ZIP64 end record 56 and
\* locator 20 when the count, offset or size of the directory needs them, then
\* the end record 22.
ZipFile_close(z) ==
    LET c == write_centdir(z, z.filelist)
        centDirSize == Big(c.tell.k - z.start_dir.k, c.tell.d - z.start_dir.d)
        requires_zip64 == \/ Len(z.filelist) > 65535
                          \/ GT(z.start_dir, ZIP64_LIMIT)
                          \/ GT(centDirSize, ZIP64_LIMIT)
        e64 == IF requires_zip64
               THEN emit(emit(c, [kind |-> "end64", path |-> <<>>, extra |-> 1, len |-> B(56)]),
                         [kind |-> "locator", path |-> <<>>, extra |-> 1, len |-> B(20)])
               ELSE c
    IN  emit(e64, [kind |-> "end", path |-> <<>>, extra |-> 0, len |-> B(22)])

(***************************************************************************)
(* zip_collection, one loop iteration at a time (SpecZip).                 *)
(***************************************************************************)
\* Mutant of sha_check: the entry is set to True without the comparison.
sha_check_unconditional(us, f) == dict_update(us, f.path, "True")

sha_check(us, f) ==
    IF dict_get(us, f.path) = sha256(f.content)
    THEN dict_update(us, f.path, "True")
    ELSE us

zip_open ==
    /\ pc = "zip_open"
    /\ zip_buffer' = ZipFile_new
    /\ pc' = "zip_member"
    /\ UNCHANGED <<collection, upload_success>>
    /\ UNCHANGED prepVars
    /\ UNCHANGED streamVars
    /\ UNCHANGED exportVars
    /\ UNCHANGED callVars
    /\ UNCHANGED readerVars

zip_member ==
    /\ pc = "zip_member"
    /\ Len(zip_buffer.filelist) < Len(data)
    /\ LET f == data[Len(zip_buffer.filelist) + 1]
           opened == ZipFile_open(zip_buffer, f.path, TRUE)
           written == IF f.actual = B(0) THEN opened ELSE dest_write(opened, f.actual)
       IN  /\ zip_buffer' = dest_close(written)
           /\ upload_success' = sha_check(upload_success, f)
    /\ UNCHANGED <<collection, pc>>
    /\ UNCHANGED prepVars
    /\ UNCHANGED streamVars
    /\ UNCHANGED exportVars
    /\ UNCHANGED callVars
    /\ UNCHANGED readerVars

zip_close ==
    /\ pc = "zip_member"
    /\ Len(zip_buffer.filelist) = Len(data)
    /\ zip_buffer' = ZipFile_close(zip_buffer)
    /\ pc' = "done"
    /\ UNCHANGED <<collection, upload_success>>
    /\ UNCHANGED prepVars
    /\ UNCHANGED streamVars
    /\ UNCHANGED exportVars
    /\ UNCHANGED callVars
    /\ UNCHANGED readerVars

(***************************************************************************)
(* SpecZip: get_zip_generator's preparation followed by the builder run to *)
(* its end, for every collection of ZipFiles.                              *)
(***************************************************************************)
StreamIdle ==
    /\ gen = "idle"
    /\ remaining = 0
    /\ stream = <<>>
    /\ buffer = <<>>
    /\ len = 0
    /\ md5 = <<>>
    /\ returned = <<>>
    /\ last = <<>>

\* No export is in progress.
ExportIdle ==
    /\ epc = "idle"
    /\ dataset_deposit_url = "None"
    /\ deletion = FALSE
    /\ pool = "None"
    /\ pool_result = [ready |-> FALSE, value |-> << >>]
    /\ chksums = <<>>
    /\ response = <<>>
    /\ validated_checksum = "None"
    /\ validated_upload = "None"
    /\ status = <<>>
    /\ deleted = FALSE
    /\ exported = FALSE
    /\ data_export = FALSE
    /\ fault = <<>>
    /\ raised = "None"
    /\ status_cleanups = 0
    /\ cleaned = FALSE
    /\ outcome = "None"

\* No MultiPurposeReader exists and no confirmation has been sent.
ReaderIdle ==
    /\ emails = 0
    /\ reader = "None"

InitZip ==
    /\ collection \in Collections(ZipFiles, MaxFiles)
    /\ pc = "prepare"
    /\ sorted_path = <<>>
    /\ data = <<>>
    /\ size = B(0)
    /\ zip64 = FALSE
    /\ blocks = <<>>
    /\ upload_success = << >>
    /\ zip_buffer = ZipFile_new
    /\ StreamIdle
    /\ ExportIdle
    /\ ReaderIdle

NextZip ==
    \/ prepare_begin
    \/ prepare_entry
    \/ prepare_end
    \/ zip_open
    \/ zip_member
    \/ zip_close

SpecZip == InitZip /\ [][NextZip]_vars

(***************************************************************************)
(* Byte strings as runs of archive offsets.                                *)
(***************************************************************************)
RECURSIVE RunsLen(_)
RunsLen(r) == IF r = <<>> THEN 0 ELSE (Head(r)[2] - Head(r)[1]) + RunsLen(Tail(r))

RunsCat(a, b) ==
    IF a = <<>> THEN b
    ELSE IF b = <<>> THEN a
    ELSE IF a[Len(a)][2] = b[1][1]
         THEN SubSeq(a, 1, Len(a) - 1) \o <<(<<a[Len(a)][1], b[1][2]>>)>> \o Tail(b)
         ELSE a \o b

RECURSIVE RunsTake(_, _)
RunsTake(r, n) ==
    IF r = <<>> \/ n <= 0 THEN <<>>
    ELSE LET h == Head(r)
             l == h[2] - h[1]
         IN  IF l <= n THEN <<h>> \o RunsTake(Tail(r), n - l)
             ELSE <<(<<h[1], h[1] + n>>)>>

RECURSIVE RunsDrop(_, _)
RunsDrop(r, n) ==
    IF r = <<>> \/ n <= 0 THEN r
    ELSE LET h == Head(r)
             l == h[2] - h[1]
         IN  IF l <= n THEN RunsDrop(Tail(r), n - l)
             ELSE <<(<<h[1] + n, h[2]>>)>> \o Tail(r)

Run(lo, hi) == IF hi > lo THEN <<(<<lo, hi>>)>> ELSE <<>>

(***************************************************************************)
(* zip_collection as a generator.  A builder state b is                    *)
(* [gen, remaining, z, us]: the yield the generator is suspended at, the   *)
(* unread bytes of the open remote file, the ZipFile and upload_success.   *)
(* resume(b, plan) is one next() on it: it runs to the next yield.         *)
(***************************************************************************)
BLOCK_SIZE == 1024 * 8192

\* Mutant of Min: buff.read() without a size, the whole file in one chunk.
Min_unbounded(a, b) == b

Min(a, b) == IF a <= b THEN a ELSE b

\* The body of zip_collection from the point it is resumed at to its next
\* yield.  With a member open: chunk = buff.read(BLOCK_SIZE); a chunk is
\* written, digested and yielded; at b'' the with block is left (data
\* descriptor), the digest compared, and the loop goes on.  With no member
\* open: the next file of data is opened, or the archive closed and yielded.
\* session.data_objects.open (kind "open") or buff.read (kind "read") of the
\* file the builder is at raises.
remote_raises(b, kind) ==
    /\ fault # <<>>
    /\ fault[1] = Len(b.z.filelist) + 1
    /\ fault[2] = kind

\* An exception leaves the generator: gen = "raised".  Raised by buff.read
\* it leaves the with block first, which closes the member.
RECURSIVE zip_collection(_, _)
zip_collection(b, plan) ==
    IF b.z.writing # <<>>
    THEN LET f == plan[Len(b.z.filelist) + 1]
             n == Min(BLOCK_SIZE, b.remaining)
         IN  IF remote_raises(b, "read")
             THEN [b EXCEPT !.gen = "raised", !.z = dest_close(b.z)]
             ELSE IF n > 0
             THEN [b EXCEPT !.gen = "chunk", !.z = dest_write(b.z, B(n)),
                            !.remaining = @ - n]
             ELSE zip_collection([b EXCEPT !.z = dest_close(b.z),
                                           !.us = sha_check(b.us, f)], plan)
    ELSE IF Len(b.z.filelist) = Len(plan)
         THEN [b EXCEPT !.gen = "closed", !.z = ZipFile_close(b.z)]
         ELSE IF remote_raises(b, "open")
         THEN [b EXCEPT !.gen = "raised"]
         ELSE LET f == plan[Len(b.z.filelist) + 1]
              IN  zip_collection([b EXCEPT !.z = ZipFile_open(b.z, f.path, TRUE),
                                            !.remaining = f.actual.d], plan)

resume(b, plan) ==
    CASE b.gen = "created" -> [b EXCEPT !.gen = "opened", !.z = ZipFile_new]
      [] b.gen \in {"opened", "chunk"} -> zip_collection(b, plan)
      [] b.gen = "closed"  -> [b EXCEPT !.gen = "ended"]
      [] OTHER             -> b

(***************************************************************************)
(* archive_generator: resume the builder, take what it wrote from the      *)
(* stream, and yield it when it is not empty.  A pull state p is           *)
(* [b, stream, chunk]; chunk is what next() returned, <<>> at the end of   *)
(* the generator (StopIteration, which _get_bytes turns into b'').         *)
(***************************************************************************)
UnseekableStream_write(st, from, to) == RunsCat(st, Run(from.d, to.d))

RECURSIVE archive_generator(_, _)
RECURSIVE archive_yield(_, _, _)
\* s = stream.get(); if len(s) > 0: yield s
archive_yield(r, s, plan) ==
    IF r.gen \in {"ended", "raised"} THEN [b |-> r, stream |-> s, chunk |-> <<>>]
    ELSE IF RunsLen(s) > 0 THEN [b |-> r, stream |-> <<>>, chunk |-> s]
    ELSE archive_generator([b |-> r, stream |-> s, chunk |-> <<>>], plan)

archive_resumed(p, r, plan) ==
    archive_yield(r, UnseekableStream_write(p.stream, p.b.z.tell, r.z.tell), plan)

\* for i in func
archive_generator(p, plan) ==
    IF p.b.gen \in {"ended", "raised"} THEN [p EXCEPT !.chunk = <<>>]
    ELSE archive_resumed(p, resume(p.b, plan), plan)

\* Mutant of _get_bytes: every exception is caught like StopIteration.
swallowed(g) == IF g.b.gen = "raised" THEN [g EXCEPT !.b.gen = "ended"] ELSE g

_get_bytes_except_all(p, plan) == swallowed(archive_generator(p, plan))

\* try: next(self.iterator) except StopIteration: b''; any other exception
\* goes on to the caller (gen = "raised" in the state returned)
_get_bytes(p, plan) == archive_generator(p, plan)

(***************************************************************************)
(* IteratorAsBinaryFile.  An iterator state i is [p, buffer].              *)
(***************************************************************************)
RECURSIVE _load_bytes(_, _, _, _)
RECURSIVE _load_append(_, _, _, _)
\* amount_to_load -= self._buffer.append(bytes_to_append)
_load_append(i, g, amount_to_load, plan) ==
    _load_bytes([p |-> g, buffer |-> RunsCat(i.buffer, g.chunk)],
                amount_to_load - RunsLen(g.chunk), g.chunk # <<>>, plan)

\* while amount_to_load > 0 and bytes_to_append
_load_bytes(i, amount_to_load, bytes_to_append, plan) ==
    IF amount_to_load > 0 /\ bytes_to_append
    THEN _load_append(i, _get_bytes(i.p, plan), amount_to_load, plan)
    ELSE i

\* b''.join(self.iterator)
RECURSIVE join_iterator(_, _)
RECURSIVE join_chunk(_, _, _)
join_chunk(g, acc, plan) ==
    IF g.chunk = <<>> THEN [p |-> g, s |-> acc]
    ELSE join_iterator([p |-> g, s |-> RunsCat(acc, g.chunk)], plan)

join_iterator(j, plan) == join_chunk(archive_generator(j.p, plan), j.s, plan)

\* Mutant of CustomBytesIO_read: one byte more than asked.
CustomBytesIO_read_over(buf, n) == IF n < 0 THEN buf ELSE RunsTake(buf, n + 1)

CustomBytesIO_read(buf, n) == IF n < 0 THEN buf ELSE RunsTake(buf, n)

md5_update(fed, s) == RunsCat(fed, s)

len_after(l, s, n) == IF s = <<>> \/ n < 0 THEN 0 ELSE l

\* get_zip_generator, after the preparation: the stream, the generators and
\* IteratorAsBinaryFile(size, ...)
get_zip_generator ==
    /\ pc = "zip_open"
    /\ gen = "idle"
    /\ gen' = "created"
    /\ stream' = <<>>
    /\ buffer' = <<>>
    /\ len' = size.d
    /\ pc' = "streaming"
    /\ UNCHANGED <<collection, upload_success, zip_buffer, remaining, md5, returned, last>>
    /\ UNCHANGED prepVars
    /\ UNCHANGED exportVars
    /\ UNCHANGED callVars
    /\ UNCHANGED readerVars

\* The generators as they stand between two reads.
suspended ==
    [b |-> [gen |-> gen, remaining |-> remaining, z |-> zip_buffer,
            us |-> upload_success],
     stream |-> stream, chunk |-> <<>>]

generators_after(p) ==
    /\ gen' = p.b.gen
    /\ remaining' = p.b.remaining
    /\ zip_buffer' = p.b.z
    /\ upload_success' = p.b.us
    /\ stream' = p.stream

\* The exception of a remote read leaves read: nothing is returned; what
\* was loaded before stays in _buffer.
read_raised(p, buf) ==
    /\ generators_after(p)
    /\ buffer' = buf
    /\ UNCHANGED <<len, md5, returned, last>>

\* size == -1: return b''.join(self.iterator)
read_join(j, n) ==
    /\ generators_after(j.p)
    /\ returned' = RunsCat(returned, j.s)
    /\ last' = <<n, RunsLen(j.s)>>
    /\ UNCHANGED <<buffer, len, md5>>

read_joined(j, n) ==
    IF j.p.b.gen = "raised" THEN read_raised(j.p, buffer) ELSE read_join(j, n)

\* s = self._buffer.read(size); len = 0 if not s or size < 0; md5.update(s)
read_buffer(i, s, n) ==
    /\ generators_after(i.p)
    /\ buffer' = RunsDrop(i.buffer, RunsLen(s))
    /\ len' = len_after(len, s, n)
    /\ md5' = md5_update(md5, s)
    /\ returned' = RunsCat(returned, s)
    /\ last' = <<n, RunsLen(s)>>

read_loaded(i, n) ==
    IF i.p.b.gen = "raised" THEN read_raised(i.p, i.buffer)
    ELSE read_buffer(i, CustomBytesIO_read(i.buffer, n), n)

read(n) ==
    /\ pc = "streaming"
    /\ IF n = -1
       THEN read_joined(join_iterator([p |-> suspended, s |-> <<>>], data), n)
       ELSE read_loaded(_load_bytes([p |-> suspended, buffer |-> buffer],
                                    n - RunsLen(buffer), TRUE, data), n)
    /\ pc' = IF gen' = "raised" THEN "raised"
             ELSE IF n < 0 THEN "read_all" ELSE "streaming"
    /\ UNCHANGED collection
    /\ UNCHANGED prepVars
    /\ UNCHANGED exportVars
    /\ UNCHANGED callVars
    /\ UNCHANGED readerVars

(***************************************************************************)
(* SpecStream: the preparation, then any sequence of reads of the          *)
(* iterator.  Files are small; a remote read may deliver fewer bytes than  *)
(* the declared size.  A read with a negative size asks for all that is    *)
(* left and is the caller's last read.                                     *)
(***************************************************************************)
ReadSizes == {-2, -1, 0, 1, 17, 65536}

StreamFiles ==
    {[path |-> d[1], size |-> B(d[2]), actual |-> B(d[3]), content |-> "c1",
      chksum |-> sha256("c1")] :
        d \in {<<(<<1>>), 0, 0>>, <<(<<1, 1>>), 2, 2>>, <<(<<2>>), 3, 3>>,
               <<(<<2>>), 3, 2>>}}

InitStream ==
    /\ collection \in Collections(StreamFiles, MaxFiles)
    /\ pc = "prepare"
    /\ sorted_path = <<>>
    /\ data = <<>>
    /\ size = B(0)
    /\ zip64 = FALSE
    /\ blocks = <<>>
    /\ upload_success = << >>
    /\ zip_buffer = ZipFile_new
    /\ StreamIdle
    /\ ExportIdle
    /\ ReaderIdle

NextStream ==
    \/ prepare_begin
    \/ prepare_entry
    \/ prepare_end
    \/ get_zip_generator
    \/ \E n \in ReadSizes : read(n)

SpecStream == InitStream /\ [][NextStream]_vars

(***************************************************************************)
(* SpecPull: the preparation, then reads of the iterator, for files of one *)
(* to three blocks and reads of half a block to more than two blocks.      *)
(***************************************************************************)
PullSizes == {3000000, BLOCK_SIZE \div 2, BLOCK_SIZE, 2 * BLOCK_SIZE + 100}

PullFiles ==
    {[path |-> p, size |-> B(n), actual |-> B(n), content |-> "c1",
      chksum |-> sha256("c1")] :
        p \in {<<1>>, <<1, 1>>},
        n \in {BLOCK_SIZE - 1, BLOCK_SIZE + 1, 2 * BLOCK_SIZE + 1}}

InitPull ==
    /\ collection \in Collections(PullFiles, MaxFiles)
    /\ pc = "prepare"
    /\ sorted_path = <<>>
    /\ data = <<>>
    /\ size = B(0)
    /\ zip64 = FALSE
    /\ blocks = <<>>
    /\ upload_success = << >>
    /\ zip_buffer = ZipFile_new
    /\ StreamIdle
    /\ ExportIdle
    /\ ReaderIdle

NextPull ==
    \/ prepare_begin
    \/ prepare_entry
    \/ prepare_end
    \/ get_zip_generator
    \/ \E n \in PullSizes : read(n)

SpecPull == InitPull /\ [][NextPull]_vars

(***************************************************************************)
(* DataverseClient.import_files.  The checksum worker of the pool runs     *)
(* beside the orchestrator; requests.post drains the bundle iterator,      *)
(* which drives the preparation and the builder above.  run_checksum and   *)
(* zip_generator_faker are imported from code that is not in this source   *)
(* tree: the worker is modelled after the specification of the remote      *)
(* checksum fetcher, which asks the catalogue for the digest of every file *)
(* of the collection, one after the other, and returns the mapping.        *)
(***************************************************************************)
update_metadata_status(log, old, new) == Append(log, <<old, new>>)

\* import_files up to pool.apply_async, or its else branch
\* Mutant of dataset_known: import_files does not look at the deposit URL.
dataset_known_always(url) == TRUE

\* if self.dataset_deposit_url is not None
dataset_known(url) == url # "None"

import_files(del) ==
    /\ epc = "import_files"
    /\ deletion' = del
    /\ IF dataset_known(dataset_deposit_url)
       THEN /\ status' = update_metadata_status(status, "CREATE_DATASET", "PREPARE_COLLECTION")
            /\ pool' = "running"
            /\ epc' = "_prepare_zip"
       ELSE /\ status' = update_metadata_status(status, "CREATE_DATASET", "DATASET_UNKNOWN")
            /\ pool' = pool
            /\ epc' = "returned"
    /\ UNCHANGED <<dataset_deposit_url, pool_result, chksums, response,
                   validated_checksum, validated_upload, deleted, exported>>
    /\ UNCHANGED zipVars
    /\ UNCHANGED streamVars
    /\ UNCHANGED callVars
    /\ UNCHANGED readerVars

\* The worker asks for the digest of the next file of the collection.
run_checksum ==
    /\ pool \in {"running", "closed"}
    /\ ~pool_result.ready
    /\ LET n == Cardinality(DOMAIN pool_result.value)
       IN  /\ n < Len(collection)
           /\ pool_result' = [pool_result EXCEPT !.value =
                                dict_update(@, collection[n + 1].path,
                                            rule_checksum(collection[n + 1]))]
    /\ UNCHANGED <<epc, dataset_deposit_url, deletion, pool, chksums, response,
                   validated_checksum, validated_upload, status, deleted, exported>>
    /\ UNCHANGED zipVars
    /\ UNCHANGED streamVars
    /\ UNCHANGED callVars
    /\ UNCHANGED readerVars

\* The worker returns its mapping.
run_checksum_return ==
    /\ pool \in {"running", "closed"}
    /\ ~pool_result.ready
    /\ Cardinality(DOMAIN pool_result.value) = Len(collection)
    /\ pool_result' = [pool_result EXCEPT !.ready = TRUE]
    /\ UNCHANGED <<epc, dataset_deposit_url, deletion, pool, chksums, response,
                   validated_checksum, validated_upload, status, deleted, exported>>
    /\ UNCHANGED zipVars
    /\ UNCHANGED streamVars
    /\ UNCHANGED callVars
    /\ UNCHANGED readerVars

_prepare_zip ==
    /\ epc = "_prepare_zip"
    /\ status' = update_metadata_status(status, "PREPARE_COLLECTION", "ZIP_COLLECTION")
    /\ epc' = "_upload_zip_collection"
    /\ UNCHANGED <<dataset_deposit_url, deletion, pool, pool_result, chksums, response,
                   validated_checksum, validated_upload, deleted, exported>>
    /\ UNCHANGED zipVars
    /\ UNCHANGED streamVars
    /\ UNCHANGED callVars
    /\ UNCHANGED readerVars

\* _upload_zip_collection up to requests.post: the request is issued, and the
\* transport starts to pull the bundle.
_upload_zip_collection ==
    /\ epc = "_upload_zip_collection"
    /\ status' = update_metadata_status(status, "ZIP_COLLECTION", "UPLOAD_ZIPPED_COLLECTION")
    /\ pc' = "prepare"
    /\ epc' = "requests.post"
    /\ UNCHANGED <<dataset_deposit_url, deletion, pool, pool_result, chksums, response,
                   validated_checksum, validated_upload, deleted, exported>>
    /\ UNCHANGED <<collection, upload_success, zip_buffer>>
    /\ UNCHANGED prepVars
    /\ UNCHANGED streamVars
    /\ UNCHANGED callVars
    /\ UNCHANGED readerVars

\* requests.post returns: the service has answered with a status code and,
\* when the code is OK, with the MD5 of what it stored.  It answers when the
\* body has been sent to its end (the builder run to its end, or the reader's
\* len at 0), or earlier with an error.
requests_post(status_code, md5_dataverse) ==
    /\ epc = "requests.post"
    /\ \/ pc = "done"
       \/ pc = "streaming" /\ (len = 0 \/ status_code # "OK")
    /\ response' = <<[status_code |-> status_code, md5 |-> md5_dataverse]>>
    /\ epc' = "_validate_checksum"
    /\ pc' = "sent"
    /\ UNCHANGED <<dataset_deposit_url, deletion, pool, pool_result, chksums,
                   validated_checksum, validated_upload, status, deleted, exported>>
    /\ UNCHANGED <<collection, upload_success, zip_buffer>>
    /\ UNCHANGED prepVars
    /\ UNCHANGED streamVars
    /\ UNCHANGED callVars
    /\ UNCHANGED readerVars

\* _validate_checksum up to pool.close()
pool_close ==
    /\ epc = "_validate_checksum"
    /\ status' = update_metadata_status(status, "UPLOAD_ZIPPED_COLLECTION", "VALIDATE_CHECKSUM")
    /\ pool' = "closed"
    /\ epc' = "pool.join"
    /\ UNCHANGED <<dataset_deposit_url, deletion, pool_result, chksums, response,
                   validated_checksum, validated_upload, deleted, exported>>
    /\ UNCHANGED zipVars
    /\ UNCHANGED streamVars
    /\ UNCHANGED callVars
    /\ UNCHANGED readerVars

\* Mutant of pool_join: the orchestrator does not wait for the worker.
pool_join_no_wait(result) == TRUE

\* pool.join() returns once the worker has returned.
pool_join(result) == result.ready

\* for k in upload_success.keys(): if upload_success[k] == chksums[k]: ...
validated_keys(us, sums) == {k \in DOMAIN us : us[k] = dict_get(sums, k)}

mark_validated(us, keys) == [k \in DOMAIN us |-> IF k \in keys THEN "True" ELSE us[k]]

\* _validate_checksum from pool.join() on
_validate_checksum ==
    /\ epc = "pool.join"
    /\ pool_join(pool_result)
    /\ pool' = "joined"
    /\ chksums' = <<pool_result.value>>
    /\ LET count == validated_keys(upload_success, pool_result.value)
       IN  /\ upload_success' = mark_validated(upload_success, count)
           /\ IF Cardinality(count) = Cardinality(DOMAIN upload_success)
              THEN /\ validated_checksum' = "True"
                   /\ status' = status
              ELSE /\ validated_checksum' = "False"
                   /\ status' = update_metadata_status(status, "VALIDATE_UPLOAD", "UPLOAD_CORRUPTED")
    /\ epc' = "_validate_upload"
    /\ UNCHANGED <<dataset_deposit_url, deletion, pool_result, response,
                   validated_upload, deleted, exported>>
    /\ UNCHANGED <<collection, pc, zip_buffer>>
    /\ UNCHANGED prepVars
    /\ UNCHANGED streamVars
    /\ UNCHANGED callVars
    /\ UNCHANGED readerVars

_validate_upload ==
    /\ epc = "_validate_upload"
    /\ LET begun == update_metadata_status(status, "VALIDATE_CHECKSUM", "VALIDATE_UPLOAD")
           resp == response[1]
       IN  IF resp.status_code = "OK"
           THEN IF resp.md5 = "md5_hexdigest"
                THEN /\ validated_upload' = "True"
                     /\ status' = update_metadata_status(begun, "VALIDATE_UPLOAD", "FINALIZE")
                ELSE /\ validated_upload' = "False"
                     /\ status' = update_metadata_status(begun, "VALIDATE_UPLOAD", "UPLOAD_CORRUPTED")
           ELSE /\ validated_upload' = "False"
                /\ status' = update_metadata_status(begun, "VALIDATE_UPLOAD", "UPLOAD_FAILED")
    /\ epc' = "validated"
    /\ UNCHANGED <<dataset_deposit_url, deletion, pool, pool_result, chksums, response,
                   validated_checksum, deleted, exported>>
    /\ UNCHANGED zipVars
    /\ UNCHANGED streamVars
    /\ UNCHANGED callVars
    /\ UNCHANGED readerVars

\* if self.deletion: rule_deletion(self.upload_success)
deletion_requested(del) == del

\* self.email_confirmation()
email_confirmation(n) == n + 1

\* Mutant of both_validated: one of the two validations is enough.
either_validated(vc, vu) == vc = "True" \/ vu = "True"

\* if validated_checksum and validated_upload
both_validated(vc, vu) == vc = "True" /\ vu = "True"

\* if validated_checksum and validated_upload: rule_deletion, _final_report, ...
import_files_end ==
    /\ epc = "validated"
    /\ IF both_validated(validated_checksum, validated_upload)
       THEN /\ deleted' = deletion_requested(deletion)
            /\ status' = update_metadata_status(status, "FINALIZE", "EXPORTED")
            /\ exported' = TRUE
            /\ emails' = email_confirmation(emails)
       ELSE UNCHANGED <<deleted, status, exported, emails>>
    /\ epc' = "returned"
    /\ UNCHANGED <<dataset_deposit_url, deletion, pool, pool_result, chksums, response,
                   validated_checksum, validated_upload>>
    /\ UNCHANGED zipVars
    /\ UNCHANGED streamVars
    /\ UNCHANGED callVars
    /\ UNCHANGED reader

(***************************************************************************)
(* SpecExport: one call of import_files, with or without a dataset, for    *)
(* collections whose files may have been altered since the catalogue       *)
(* computed their digest.                                                  *)
(***************************************************************************)
ExportFiles ==
    {[path |-> p, size |-> B(n), actual |-> B(n), content |-> c,
      chksum |-> sha256("c1")] :
        p \in {<<1>>, <<1, 1>>}, n \in {3, 5}, c \in Contents}

StatusCodes == {"OK", "BAD_REQUEST"}

Md5Reported == {"md5_hexdigest", "md5_other"}

InitExport ==
    /\ collection \in Collections(ExportFiles, MaxFiles)
    /\ pc = "idle"
    /\ sorted_path = <<>>
    /\ data = <<>>
    /\ size = B(0)
    /\ zip64 = FALSE
    /\ blocks = <<>>
    /\ upload_success = << >>
    /\ zip_buffer = ZipFile_new
    /\ StreamIdle
    /\ epc = "import_files"
    /\ dataset_deposit_url \in {"None", "url"}
    /\ deletion = FALSE
    /\ pool = "None"
    /\ pool_result = [ready |-> FALSE, value |-> << >>]
    /\ chksums = <<>>
    /\ response = <<>>
    /\ validated_checksum = "None"
    /\ validated_upload = "None"
    /\ status = <<>>
    /\ deleted = FALSE
    /\ exported = FALSE
    /\ data_export = TRUE
    /\ fault = <<>>
    /\ raised = "None"
    /\ status_cleanups = 0
    /\ cleaned = FALSE
    /\ outcome = "None"
    /\ emails = 0
    /\ reader = "None"

NextExport ==
    \/ \E del \in BOOLEAN : import_files(del)
    \/ run_checksum
    \/ run_checksum_return
    \/ _prepare_zip
    \/ _upload_zip_collection
    \/ prepare_begin
    \/ prepare_entry
    \/ prepare_end
    \/ zip_open
    \/ zip_member
    \/ zip_close
    \/ \E code \in StatusCodes, sum \in Md5Reported : requests_post(code, sum)
    \/ pool_close
    \/ _validate_checksum
    \/ _validate_upload
    \/ import_files_end

SpecExport == InitExport /\ [][NextExport]_vars

(***************************************************************************)
(* DataverseExporter.init_export and do_export around import_files, with   *)
(* the failures of the environment: an exception of the metadata mapping,  *)
(* of a request, of a remote read, or of the decoding of the answer.       *)
(***************************************************************************)
_final_report(log) == update_metadata_status(log, "FINALIZE", "EXPORTED")

\* self.metadata_mapper.read_metadata()
read_metadata ==
    /\ epc = "init_export"
    /\ epc' = "create_dataset"
    /\ UNCHANGED <<dataset_deposit_url, deletion, pool, pool_result, chksums, response,
                   validated_checksum, validated_upload, status, deleted, exported>>
    /\ UNCHANGED zipVars
    /\ UNCHANGED streamVars
    /\ UNCHANGED callVars
    /\ UNCHANGED readerVars

read_metadata_raises ==
    /\ epc = "init_export"
    /\ raised' = "MetadataError"
    /\ epc' = "except"
    /\ UNCHANGED <<dataset_deposit_url, deletion, pool, pool_result, chksums, response,
                   validated_checksum, validated_upload, status, deleted, exported>>
    /\ UNCHANGED <<data_export, fault, status_cleanups, cleaned, outcome>>
    /\ UNCHANGED zipVars
    /\ UNCHANGED streamVars
    /\ UNCHANGED readerVars

\* Mutant of metadata_only: the report does not look at data_export.
metadata_only_or_not(de, status_code) == status_code = "CREATED"

\* if not data_export and resp.status_code == HTTPStatus.CREATED.value
metadata_only(de, status_code) == ~de /\ status_code = "CREATED"

create_dataset(status_code) ==
    /\ epc = "create_dataset"
    /\ LET begun == update_metadata_status(status, "CREATE_EXPORTER", "CREATE_DATASET")
           answered == IF status_code = "CREATED"
                       THEN begun
                       ELSE update_metadata_status(begun, "CREATE_DATASET",
                                                   "CREATE_DATASET_FAILED")
       IN  /\ dataset_deposit_url' = IF status_code = "CREATED"
                                     THEN "url" ELSE dataset_deposit_url
           /\ IF metadata_only(data_export, status_code)
              THEN /\ status' = _final_report(
                         update_metadata_status(answered, "CREATE_DATASET", "FINALIZE"))
                   /\ exported' = TRUE
                   /\ emails' = email_confirmation(emails)
              ELSE /\ status' = answered
                   /\ UNCHANGED <<exported, emails>>
    /\ epc' = IF data_export THEN "import_files" ELSE "cleanup"
    /\ UNCHANGED <<deletion, pool, pool_result, chksums, response,
                   validated_checksum, validated_upload, deleted>>
    /\ UNCHANGED zipVars
    /\ UNCHANGED streamVars
    /\ UNCHANGED callVars
    /\ UNCHANGED reader

\* requests.post of create_dataset raises
create_dataset_raises ==
    /\ epc = "create_dataset"
    /\ status' = update_metadata_status(status, "CREATE_EXPORTER", "CREATE_DATASET")
    /\ raised' = "ConnectionError"
    /\ epc' = "except"
    /\ UNCHANGED <<dataset_deposit_url, deletion, pool, pool_result, chksums, response,
                   validated_checksum, validated_upload, deleted, exported>>
    /\ UNCHANGED <<data_export, fault, status_cleanups, cleaned, outcome>>
    /\ UNCHANGED zipVars
    /\ UNCHANGED streamVars
    /\ UNCHANGED readerVars

\* requests.post of _upload_zip_collection raises: the exception of a remote
\* read that left the reader's read, or an error of the transport itself.
requests_post_raises ==
    /\ epc = "requests.post"
    /\ pc \in {"streaming", "raised"}
    /\ raised' = IF pc = "raised" THEN "RemoteReadError" ELSE "ConnectionError"
    /\ pc' = "raised"
    /\ epc' = "except"
    /\ UNCHANGED <<dataset_deposit_url, deletion, pool, pool_result, chksums, response,
                   validated_checksum, validated_upload, status, deleted, exported>>
    /\ UNCHANGED <<data_export, fault, status_cleanups, cleaned, outcome>>
    /\ UNCHANGED <<collection, upload_success, zip_buffer>>
    /\ UNCHANGED prepVars
    /\ UNCHANGED streamVars
    /\ UNCHANGED readerVars

\* resp.json()['data']['files'][0]['dataFile']['md5'] raises
_validate_upload_raises ==
    /\ epc = "_validate_upload"
    /\ response[1].status_code = "OK"
    /\ status' = update_metadata_status(status, "VALIDATE_CHECKSUM", "VALIDATE_UPLOAD")
    /\ raised' = "KeyError"
    /\ epc' = "except"
    /\ UNCHANGED <<dataset_deposit_url, deletion, pool, pool_result, chksums, response,
                   validated_checksum, validated_upload, deleted, exported>>
    /\ UNCHANGED <<data_export, fault, status_cleanups, cleaned, outcome>>
    /\ UNCHANGED zipVars
    /\ UNCHANGED streamVars
    /\ UNCHANGED readerVars

\* do_export: rule_close(), session.cleanup(); init_export returns
do_export_cleanup ==
    /\ epc \in {"returned", "cleanup"}
    /\ cleaned' = TRUE
    /\ outcome' = "returned"
    /\ epc' = "done"
    /\ UNCHANGED <<dataset_deposit_url, deletion, pool, pool_result, chksums, response,
                   validated_checksum, validated_upload, status, deleted, exported>>
    /\ UNCHANGED <<data_export, fault, raised, status_cleanups>>
    /\ UNCHANGED zipVars
    /\ UNCHANGED streamVars
    /\ UNCHANGED readerVars

status_cleanup(n) == n + 1

\* Mutant of reraise: the handler does not raise again.
reraise_swallowed(exc) == "returned"

\* raise, at the end of the except block
reraise(exc) == exc

\* init_export: except: status_cleanup(); raise
init_export_except ==
    /\ epc = "except"
    /\ status_cleanups' = status_cleanup(status_cleanups)
    /\ outcome' = reraise(raised)
    /\ epc' = "done"
    /\ UNCHANGED <<dataset_deposit_url, deletion, pool, pool_result, chksums, response,
                   validated_checksum, validated_upload, status, deleted, exported>>
    /\ UNCHANGED <<data_export, fault, raised, cleaned>>
    /\ UNCHANGED zipVars
    /\ UNCHANGED streamVars
    /\ UNCHANGED readerVars

(***************************************************************************)
(* SpecDoExport: one call of init_export.  The transport pulls the bundle  *)
(* through IteratorAsBinaryFile.read with positive sizes.                  *)
(***************************************************************************)
TransportSizes == {17, 8192}

CreateCodes == {"CREATED", "BAD_REQUEST"}

Faults(n) == {<<>>} \cup {<<i, k>> : i \in 1..n, k \in {"open", "read"}}

InitDoExport ==
    /\ collection \in Collections(ExportFiles, MaxFiles)
    /\ pc = "idle"
    /\ sorted_path = <<>>
    /\ data = <<>>
    /\ size = B(0)
    /\ zip64 = FALSE
    /\ blocks = <<>>
    /\ upload_success = << >>
    /\ zip_buffer = ZipFile_new
    /\ StreamIdle
    /\ epc = "init_export"
    /\ dataset_deposit_url = "None"
    /\ deletion = FALSE
    /\ pool = "None"
    /\ pool_result = [ready |-> FALSE, value |-> << >>]
    /\ chksums = <<>>
    /\ response = <<>>
    /\ validated_checksum = "None"
    /\ validated_upload = "None"
    /\ status = <<>>
    /\ deleted = FALSE
    /\ exported = FALSE
    /\ data_export \in BOOLEAN
    /\ fault \in Faults(Len(collection))
    /\ raised = "None"
    /\ status_cleanups = 0
    /\ cleaned = FALSE
    /\ outcome = "None"
    /\ emails = 0
    /\ reader = "None"

NextDoExport ==
    \/ read_metadata
    \/ read_metadata_raises
    \/ \E code \in CreateCodes : create_dataset(code)
    \/ create_dataset_raises
    \/ \E del \in BOOLEAN : import_files(del)
    \/ run_checksum
    \/ run_checksum_return
    \/ _prepare_zip
    \/ _upload_zip_collection
    \/ prepare_begin
    \/ prepare_entry
    \/ prepare_end
    \/ get_zip_generator
    \/ \E n \in TransportSizes : read(n)
    \/ \E code \in StatusCodes, sum \in Md5Reported : requests_post(code, sum)
    \/ requests_post_raises
    \/ pool_close
    \/ _validate_checksum
    \/ _validate_upload
    \/ _validate_upload_raises
    \/ import_files_end
    \/ do_export_cleanup
    \/ init_export_except

SpecDoExport == InitDoExport /\ [][NextDoExport]_vars

(***************************************************************************)
(* MultiPurposeReader.  _raw is a buffered binary file of raw.size bytes,  *)
(* read up to raw.pos: read(n) returns the bytes left for n = -1 and up to *)
(* n bytes otherwise.  The bytes are runs of offsets of _raw.              *)
(***************************************************************************)
\* self._raw.read(n): the number of bytes it returns
raw_read(raw, n) == IF n < 0 THEN raw.size - raw.pos ELSE Min(n, raw.size - raw.pos)

\* MultiPurposeReader(buffer, length, md5, sha)
MultiPurposeReader(raw_size, length) ==
    [len |-> length, raw |-> [size |-> raw_size, pos |-> 0],
     md5 |-> <<>>, sha |-> <<>>, chunk_size |-> <<>>, chunk |-> <<>>]

force_size == 1024 * 8192

\* if chunk_size == -1 or chunk_size == 0 or chunk_size > force_size
asked_size(chunk_size) ==
    IF chunk_size = -1 \/ chunk_size = 0 \/ chunk_size > force_size
    THEN chunk_size
    ELSE force_size

\* MultiPurposeReader.read(chunk_size)
MultiPurposeReader_read(chunk_size) ==
    /\ pc = "reader"
    /\ LET got == raw_read(reader.raw, asked_size(chunk_size))
           chunk == Run(reader.raw.pos, reader.raw.pos + got)
       IN  reader' = [len |-> IF chunk = <<>> THEN 0 ELSE reader.len - got,
                      raw |-> [reader.raw EXCEPT !.pos = @ + got],
                      md5 |-> RunsCat(reader.md5, chunk),
                      sha |-> RunsCat(reader.sha, chunk),
                      chunk_size |-> <<chunk_size>>,
                      chunk |-> chunk]
    /\ UNCHANGED emails
    /\ UNCHANGED zipVars
    /\ UNCHANGED streamVars
    /\ UNCHANGED exportVars
    /\ UNCHANGED callVars

RawSizes == {0, 1, 5, force_size - 1, force_size, force_size + 1,
             2 * force_size + 3, 3 * force_size}

ChunkSizes == {-1, 0, 1, 8192, force_size, force_size + 1}

InitReader ==
    /\ collection = <<>>
    /\ pc = "reader"
    /\ sorted_path = <<>>
    /\ data = <<>>
    /\ size = B(0)
    /\ zip64 = FALSE
    /\ blocks = <<>>
    /\ upload_success = << >>
    /\ zip_buffer = ZipFile_new
    /\ StreamIdle
    /\ ExportIdle
    /\ emails = 0
    /\ \E raw_size \in RawSizes :
          reader \in {MultiPurposeReader(raw_size, length) :
                        length \in {raw_size, raw_size + 7}}

NextReader == \E chunk_size \in ChunkSizes : MultiPurposeReader_read(chunk_size)

SpecReader == InitReader /\ [][NextReader]_vars

(***************************************************************************)
(* Properties of the size predictor and the builder (SpecZip).             *)
(***************************************************************************)
RunningTotal(i) == SumBig([j \in 1..i |-> blocks[j].block])

\* Entry i is one at which the file's size or the running total has reached
\* the threshold.
Reached(i) ==
    GE(data[i].size, ZIP64_LIMIT) \/ GE(RunningTotal(i), ZIP64_LIMIT)

\* The bytes calc_zip_block added for entry i beyond the file's size and the
\* fixed records 30 + name + 24 + 20 and 46 + name.
ExtraOverhead(i) ==
    blocks[i].block.d - data[i].size.d - (120 + 2 * PyLen(data[i].path))

CentralRecords == SelectSeq(zip_buffer.out, LAMBDA r : r.kind = "central")

TerminalRecords ==
    SelectSeq(zip_buffer.out, LAMBDA r : r.kind \in {"end64", "locator", "end"})

\* C1, the size law: once the builder has finished, the byte count the
\* predictor returned equals the number of bytes written to the stream (every
\* file of SpecZip delivers exactly its declared size).
C1_SizeLaw == pc = "done" => size = zip_buffer.tell

\* C8, monotonic extended addressing: while the plan is walked the zip64 flag
\* is true exactly when the size of an entry walked so far, or the running
\* total after it, has reached ZIP64_LIMIT; once true it stays true, and the
\* end-of-index overhead is the extended one exactly when the flag is set.
C8_FlagIffReached ==
    pc = "prepare_walk" => (zip64 <=> \E j \in 1..Len(data) : Reached(j))

C8_Zip64Monotonic ==
    /\ []C8_FlagIffReached
    /\ [][zip64 => zip64']_vars
    /\ [][(pc = "prepare_walk" /\ pc' = "zip_open")
            => size' = AddN(size, IF zip64 THEN 98 ELSE 22)]_vars

C8_Witness ==
    /\ pc = "prepare_walk"
    /\ Len(data) = 2
    /\ ~GE(data[1].size, ZIP64_LIMIT)
    /\ blocks[2].zip64
    /\ zip64

\* C9 as stated: every entry from the one at which the threshold is first
\* reached onwards, that entry included, is sized with the extended flag.
C9_CrossingEntryExtended ==
    \A i \in 1..Len(blocks) : (\E j \in 1..i : Reached(j)) => blocks[i].zip64

\* C9 amended: the entry at which the threshold is first reached is sized with
\* the flag still false (no offset field: 0 extra bytes, or the 20 of its own
\* ZIP64 size field when its size is at or above the threshold); exactly the
\* entries after it are sized with the extended overhead (12 bytes more, 28
\* for a file at or above the threshold).
C9_ExtendedAfterCrossing ==
    \A i \in 1..Len(blocks) :
        /\ blocks[i].zip64 <=> \E j \in 1..(i - 1) : Reached(j)
        /\ ExtraOverhead(i) =
             IF \E j \in 1..(i - 1) : Reached(j)
             THEN (IF GE(data[i].size, ZIP64_LIMIT) THEN 28 ELSE 12)
             ELSE (IF GE(data[i].size, ZIP64_LIMIT) THEN 20 ELSE 0)

C9_Witness ==
    /\ Len(blocks) = 2
    /\ Reached(1)
    /\ ~blocks[1].zip64
    /\ blocks[2].zip64
    /\ ExtraOverhead(2) = 12

\* C10, index and terminal record agree with the plan: after the builder has
\* finished, the index holds one record per plan file, in plan order, followed
\* by the terminal record; the terminal record is the ZIP64 variant exactly
\* when the predictor flagged the plan, and an index record carries a ZIP64
\* field exactly where the predictor sized the entry as extended.
C10_IndexAgreesWithPlan ==
    pc = "done" =>
        /\ Len(CentralRecords) = Len(data)
        /\ \A i \in 1..Len(data) : CentralRecords[i].path = data[i].path
        /\ SubSeq(zip_buffer.out, Len(zip_buffer.out) - Len(data) - Len(TerminalRecords) + 1,
                  Len(zip_buffer.out)) = CentralRecords \o TerminalRecords
        /\ (\E i \in 1..Len(TerminalRecords) : TerminalRecords[i].kind = "end64") <=> zip64
        /\ \A i \in 1..Len(data) :
              (CentralRecords[i].extra > 0) <=> (ExtraOverhead(i) > 0)

(***************************************************************************)
(* Properties of the pull reader (SpecStream).                             *)
(***************************************************************************)
\* Bytes are still to be delivered: some are buffered in the reader, or the
\* builder has not written the end of the archive yet.
BytesRemain == buffer # <<>> \/ gen \in {"created", "opened", "chunk"}

\* C2, digest invariant to read granularity: after any sequence of reads the
\* bytes fed to md5 are the bytes returned so far, each once, in order.
C2_DigestCoversReturned == md5 = returned

\* C5 as stated: every read(N) returns at most N bytes, and returns no byte
\* only when the chunk sequence is exhausted and the buffer is empty.
C5_PullBounds ==
    last # <<>> => (last[2] <= last[1] /\ (last[2] = 0 => ~BytesRemain))

\* C5 amended: every read(N) with N >= 1 returns at most N bytes, and returns
\* no byte only when the chunk sequence is exhausted and the buffer is empty.
C5_PullBoundsPositive ==
    (last # <<>> /\ last[1] >= 1) =>
        (last[2] <= last[1] /\ (last[2] = 0 => ~BytesRemain))

C5_Witness ==
    /\ last # <<>>
    /\ last[1] = 17
    /\ last[2] = 0
    /\ ~BytesRemain
    /\ RunsLen(returned) > 0

\* C6, remaining length: from the construction of the reader on, len is the
\* predictor's byte count minus the number of bytes returned so far, or 0 once
\* nothing is left to deliver.
C6_RemainingLength ==
    pc \in {"streaming", "read_all"} =>
        \/ len = size.d - RunsLen(returned)
        \/ (len = 0 /\ ~BytesRemain)

\* C7, forced zero at exhaustion: a read that finds nothing left and returns
\* no byte leaves len = 0, and no read sets len to 0 while bytes remain to be
\* delivered.
C7_ZeroOnlyAtExhaustion ==
    last # <<>> =>
        /\ (last[2] = 0 /\ ~BytesRemain) => len = 0
        /\ len = 0 => ~BytesRemain

(***************************************************************************)
(* Properties of the export attempt (SpecExport).                          *)
(***************************************************************************)
PlanPaths == {collection[i].path : i \in 1..Len(collection)}

\* C3, ordering of an export attempt: the checksum worker has been started
\* when the upload request is issued; the digests are compared only after the
\* transport has responded and the worker has returned (pool closed and
\* joined, result obtained), and the mapping compared is the complete one.
C3_FetcherFirstJoinBeforeCompare ==
    /\ [][(epc = "_upload_zip_collection" /\ epc' = "requests.post")
            => pool = "running"]_vars
    /\ [][chksums' # chksums
            => /\ response # <<>>
               /\ pool = "closed"
               /\ pool' = "joined"
               /\ pool_result.ready
               /\ chksums' = <<pool_result.value>>
               /\ DOMAIN pool_result.value = PlanPaths]_vars
    /\ [](validated_checksum # "None" => chksums # <<>>)

C3_Witness ==
    /\ validated_checksum # "None"
    /\ Len(collection) = 2
    /\ DOMAIN chksums[1] = PlanPaths
    /\ pool = "joined"

\* C4, per-file validation: _validate_checksum reports the batch as valid
\* exactly when, for every file of the plan, the digest of the bytes streamed
\* equals the digest the worker returned for its path; upload_success holds
\* one entry per file of the plan.
C4_ValidIffAllMatch ==
    validated_checksum # "None" =>
        /\ validated_checksum = "True" <=>
             \A i \in 1..Len(data) :
                 sha256(data[i].content) = dict_get(chksums[1], data[i].path)
        /\ DOMAIN upload_success = {data[i].path : i \in 1..Len(data)}

(***************************************************************************)
(* Properties of one call of init_export (SpecDoExport).                   *)
(***************************************************************************)
\* C11, fetcher drained on failure: when the upload step has raised after the
\* checksum worker was started, then by the time the export attempt has ended
\* the pool has been closed and joined with the worker run to completion, and
\* the worker's result has been used for no validation.
C11_FetcherDrainedOnFailure ==
    (outcome # "None" /\ pool # "None"
        /\ raised \in {"RemoteReadError", "ConnectionError"}) =>
        /\ pool = "joined"
        /\ pool_result.ready
        /\ chksums = <<>>
        /\ validated_checksum = "None"

\* The record _validate_checksum makes of a per-file digest mismatch: the
\* update_metadata_status call that follows its opening call.
ChecksumFailureRecord ==
    status[1 + CHOOSE i \in 1..Len(status) :
                   status[i] = <<"UPLOAD_ZIPPED_COLLECTION", "VALIDATE_CHECKSUM">>]

\* The record _validate_upload makes of a whole-stream MD5 mismatch: its last
\* update_metadata_status call.
Md5MismatchRecord == status[Len(status)]

\* C12, whole-stream mismatch is a distinct failure category: when a per-file
\* digest mismatch and a whole-stream MD5 mismatch have both been recorded,
\* the outcome _validate_upload recorded differs from the outcome
\* _validate_checksum recorded.
C12_DistinctFailureCategories ==
    (/\ epc = "validated"
     /\ validated_checksum = "False"
     /\ validated_upload = "False"
     /\ response[1].status_code = "OK")
        => Md5MismatchRecord # ChecksumFailureRecord

\* The bytes read for the file are not the bytes its expected digest was
\* computed over.
Corrupted(f) == sha256(f.content) # rule_checksum(f)

CorruptedEntries == {i \in 1..Len(data) : Corrupted(data[i])}

\* C13, corruption is isolated per file: when exactly one file of the plan is
\* corrupted, then once the builder has streamed the plan, and until the
\* validator runs, that file's entry of upload_success is not True and every
\* other file's entry is True; unless a remote read fails the builder ends
\* without raising.
C13_CorruptionIsolated ==
    Cardinality(CorruptedEntries) = 1 =>
        /\ (gen \in {"closed", "ended"} /\ validated_checksum = "None") =>
             \A i \in 1..Len(data) :
                 (upload_success[data[i].path] = "True") <=> ~Corrupted(data[i])
        /\ fault = <<>> => gen # "raised"

C13_Witness ==
    /\ gen = "ended"
    /\ validated_checksum = "None"
    /\ Len(data) = 2
    /\ Corrupted(data[1])
    /\ ~Corrupted(data[2])
    /\ upload_success[data[1].path] # "True"
    /\ upload_success[data[2].path] = "True"

\* C14, unmodified transfer validates end to end: when no file of the
\* collection is corrupted and the service reports the MD5 of the bytes it
\* received, then after import_files every entry of upload_success is True,
\* _validate_checksum and _validate_upload have both returned True, and the
\* finalization has been reached.
C14_UnmodifiedTransferValidates ==
    (/\ epc = "returned"
     /\ dataset_deposit_url # "None"
     /\ \A i \in 1..Len(collection) : ~Corrupted(collection[i])
     /\ response[1].status_code = "OK"
     /\ response[1].md5 = "md5_hexdigest")
        => /\ \A k \in DOMAIN upload_success : upload_success[k] = "True"
           /\ validated_checksum = "True"
           /\ validated_upload = "True"
           /\ exported

C16_EmptyPlan ==
    collection = <<>> =>
        /\ pc \in {"zip_open", "streaming", "read_all"} => (size = B(22) /\ ~zip64)
        /\ gen \in {"closed", "ended"} =>
             /\ Len(zip_buffer.out) = 1
             /\ zip_buffer.out[1].kind = "end"
             /\ zip_buffer.out[1].len = B(22)
             /\ zip_buffer.tell = B(22)
        /\ RunsLen(returned) + RunsLen(buffer) <= 22
        /\ (pc \in {"streaming", "read_all"} /\ ~BytesRemain) =>
             returned = Run(0, 22)

C16_Witness ==
    /\ collection = <<>>
    /\ pc = "streaming"
    /\ last = <<17, 0>>
    /\ gen = "ended"
    /\ returned = Run(0, 22)

(***************************************************************************)
(* Properties of the pull of the builder (SpecPull).                       *)
(***************************************************************************)
RECURSIVE OutLen(_)
OutLen(out) == IF out = <<>> THEN 0 ELSE Head(out).len.d + OutLen(Tail(out))

DataRecords(out) == SelectSeq(out, LAMBDA r : r.kind = "data")

\* The archive offsets at which zip_collection yields: after each chunk it
\* has written, and after the end record.
YieldPoints ==
    {OutLen(SubSeq(zip_buffer.out, 1, k)) :
        k \in {j \in 1..Len(zip_buffer.out) : zip_buffer.out[j].kind \in {"data", "end"}}}

Produced == zip_buffer.tell.d

MaxOf(S) == CHOOSE x \in S : \A y \in S : y <= x

\* The bytes the builder wrote in its last resumption.
LastOutput == Produced - MaxOf({0} \cup {y \in YieldPoints : y < Produced})

Pending == Produced - RunsLen(returned)

\* What one more next() on the builder would do.
NextResumption == resume(suspended.b, data)

\* C17, strict backpressure: the builder's state changes only in the step of
\* a read; one resumption of the builder writes at most one chunk of file
\* bytes, of at most BLOCK_SIZE bytes; and after a read(N) with N >= 1 has
\* returned, the bytes produced and not yet returned are all in the reader's
\* buffer and are no more than the builder wrote in its last resumption.
C17_OneChunkPerResumption ==
    gen \in {"created", "opened", "chunk"} =>
        /\ Len(DataRecords(NextResumption.z.out)) <= Len(DataRecords(zip_buffer.out)) + 1
        /\ \A k \in 1..Len(NextResumption.z.out) :
              NextResumption.z.out[k].kind = "data"
                  => NextResumption.z.out[k].len.d <= BLOCK_SIZE

C17_PendingWithinOneResumption ==
    (pc = "streaming" /\ last # <<>> /\ last[1] >= 1) =>
        /\ stream = <<>>
        /\ Pending = RunsLen(buffer)
        /\ Pending <= LastOutput

C17_StrictBackpressure ==
    /\ []C17_OneChunkPerResumption
    /\ []C17_PendingWithinOneResumption
    /\ [][(zip_buffer' # zip_buffer \/ remaining' # remaining)
            => (pc = "streaming" /\ gen # "idle")]_vars

C17_Witness ==
    /\ pc = "streaming"
    /\ last # <<>>
    /\ last[1] >= 1
    /\ gen = "chunk"
    /\ remaining > 0
    /\ Len(DataRecords(zip_buffer.out)) >= 2
    /\ Pending > 0

\* The number of times the upload request has been announced in the status.
UploadsIssued ==
    Cardinality({i \in 1..Len(status) :
                    status[i] = <<"ZIP_COLLECTION", "UPLOAD_ZIPPED_COLLECTION">>})

Recorded(old, new) == \E i \in 1..Len(status) : status[i] = <<old, new>>

UploadRefused == response # <<>> /\ response[1].status_code # "OK"

\* C18, a transport failure is reported and never retried: in one call of
\* import_files the upload request is issued at most once and its response,
\* once received, is never replaced; when the service has answered with a
\* status that is not OK, _validate_upload returns False and records
\* (VALIDATE_UPLOAD, UPLOAD_FAILED), import_files runs to its end, and there is
\* no finalization, no deletion and no review submission.
C18_RefusedUpload ==
    /\ UploadsIssued <= 1
    /\ response # <<>> => UploadsIssued = 1
    /\ UploadRefused =>
          /\ validated_upload # "True"
          /\ epc \in {"validated", "returned"} =>
                /\ validated_upload = "False"
                /\ status[Len(status)] = <<"VALIDATE_UPLOAD", "UPLOAD_FAILED">>
          /\ ~exported
          /\ ~deleted
          /\ ~Recorded("VALIDATE_UPLOAD", "FINALIZE")
          /\ ~Recorded("FINALIZE", "EXPORTED")

C18_TransportFailureNotRetried ==
    /\ []C18_RefusedUpload
    /\ [][response # <<>> => response' = response]_vars

C18_Witness ==
    /\ UploadRefused
    /\ epc = "returned"
    /\ validated_checksum = "True"
    /\ validated_upload = "False"
    /\ deletion

(***************************************************************************)
(* Properties of one call of init_export (SpecDoExport).                   *)
(***************************************************************************)
\* C19, failures propagate with cleanup: when init_export has ended, an
\* exception raised during do_export has reached the caller as it was raised
\* and status_cleanup has been called exactly once, and when nothing was
\* raised init_export has returned and status_cleanup has not been called;
\* status_cleanup is never called before the exception is caught.
C19_FailuresPropagateWithCleanup ==
    /\ outcome # "None" =>
          /\ raised # "None" => (outcome = raised /\ status_cleanups = 1 /\ ~cleaned)
          /\ raised = "None" => (outcome = "returned" /\ status_cleanups = 0 /\ cleaned)
    /\ outcome = "None" => status_cleanups = 0
    /\ (raised # "None" /\ epc = "done") => outcome # "None"

C19_Witness ==
    /\ outcome = "RemoteReadError"
    /\ status_cleanups = 1
    /\ RunsLen(returned) > 0

\* The archive is complete: its last record is the end of central directory.
ArchiveComplete ==
    /\ zip_buffer.out # <<>>
    /\ zip_buffer.out[Len(zip_buffer.out)].kind = "end"

\* C20, a remote read failure aborts the pass: the stream ends normally only
\* when the archive is complete; when the open or a read of a remote file has
\* raised, the read call of the reader raises too, and then the transport has
\* no response, no validation has run or been recorded, nothing is finalized
\* or deleted and init_export ends with the error; and after the failure the
\* builder writes nothing more and the reader returns nothing more.
C20_AbortedPass ==
    /\ gen = "ended" => ArchiveComplete
    /\ gen = "raised" => (fault # <<>> /\ pc = "raised" /\ ~ArchiveComplete)
    /\ (pc = "raised" /\ gen = "raised") =>
          /\ epc \in {"requests.post", "except", "done"}
          /\ response = <<>>
          /\ chksums = <<>>
          /\ validated_checksum = "None"
          /\ validated_upload = "None"
          /\ ~Recorded("UPLOAD_ZIPPED_COLLECTION", "VALIDATE_CHECKSUM")
          /\ ~Recorded("VALIDATE_CHECKSUM", "VALIDATE_UPLOAD")
          /\ ~exported
          /\ ~deleted
          /\ outcome \in {"None", "RemoteReadError"}

C20_RemoteReadFailureAborts ==
    /\ []C20_AbortedPass
    /\ [][gen = "raised" =>
            (gen' = gen /\ zip_buffer' = zip_buffer /\ returned' = returned /\ buffer' = buffer)]_vars

C20_Witness ==
    /\ gen = "raised"
    /\ fault[2] = "read"
    /\ epc = "done"
    /\ outcome = "RemoteReadError"
    /\ Len(DataRecords(zip_buffer.out)) >= 1

(***************************************************************************)
(* Properties of MultiPurposeReader (SpecReader).                          *)
(***************************************************************************)
\* C21, the pull contract of MultiPurposeReader: a read(N) with N >= 1
\* returns at most N bytes, decrements len by exactly the number of bytes it
\* returns, and feeds both digests exactly the bytes it returns.
C21_ReaderPullContract ==
    [][(reader' # reader /\ reader'.chunk_size[1] >= 1) =>
          /\ RunsLen(reader'.chunk) <= reader'.chunk_size[1]
          /\ reader'.len = reader.len - RunsLen(reader'.chunk)
          /\ reader'.md5 = RunsCat(reader.md5, reader'.chunk)
          /\ reader'.sha = RunsCat(reader.sha, reader'.chunk)]_vars

\* C22, the source is deleted only after full validation: rule_deletion has
\* been invoked only if deletion was requested, a dataset exists, the response
\* of the upload has been received and both _validate_checksum and
\* _validate_upload have returned True; it is never invoked when the digest
\* of a streamed file differs from its expected digest, nor on a path on
\* which an exception was raised.
C22_DeletedOnlyAfterValidation ==
    /\ deleted =>
          /\ deletion
          /\ data_export
          /\ dataset_deposit_url # "None"
          /\ response # <<>>
          /\ response[1].status_code = "OK"
          /\ validated_checksum = "True"
          /\ validated_upload = "True"
          /\ epc \in {"returned", "done"}
          /\ CorruptedEntries = {}
    /\ raised # "None" => ~deleted

(***************************************************************************)
(* Completeness of the plan (SpecZip).                                     *)
(***************************************************************************)
\* C23, plan completeness: once collection_zip_preparation has returned, the
\* plan holds every file of the collection walk exactly once, files of the
\* same declared size included, and the expected-digest mapping has an entry
\* for every file of the walk.
C23_PlanComplete ==
    pc \notin {"prepare", "prepare_walk"} =>
        /\ Len(data) = Len(collection)
        /\ \A i \in 1..Len(collection) :
              Cardinality({j \in 1..Len(data) : data[j] = collection[i]}) = 1
        /\ DOMAIN upload_success = {collection[i].path : i \in 1..Len(collection)}

(***************************************************************************)
(* The recorded status (SpecDoExport).                                     *)
(***************************************************************************)
\* C24, status chain consistency: every update_metadata_status(old, new) call
\* of create_dataset and import_files is made with old equal to the new of
\* the call before it.
C24_StatusChainConnected ==
    \A i \in 2..Len(status) : status[i][1] = status[i - 1][2]

(***************************************************************************)
(* The recorded status of import_files (SpecExport).                       *)
(***************************************************************************)
\* C25, no FINALIZE after a failed check: the status FINALIZE is recorded only
\* when _validate_checksum and _validate_upload have both returned True, and
\* once _validate_checksum has returned False and recorded UPLOAD_CORRUPTED,
\* no later call records the status VALIDATE_UPLOAD or FINALIZE.
C25_NoFinalizeAfterFailedCheck ==
    /\ (\E i \in 1..Len(status) : status[i][2] = "FINALIZE") =>
          (validated_checksum = "True" /\ validated_upload = "True")
    /\ \A i, j \in 1..Len(status) :
          (/\ validated_checksum = "False"
           /\ i > 1
           /\ status[i] = <<"VALIDATE_UPLOAD", "UPLOAD_CORRUPTED">>
           /\ status[i - 1] = <<"UPLOAD_ZIPPED_COLLECTION", "VALIDATE_CHECKSUM">>
           /\ i < j)
              => status[j][2] \notin {"VALIDATE_UPLOAD", "FINALIZE"}

(***************************************************************************)
(* import_files without a dataset (SpecDoExport).                          *)
(***************************************************************************)
\* No checksum fetcher, no preparation, no builder, no upload request, no
\* validation and no deletion has been started.
NothingTransferred ==
    /\ pool = "None"
    /\ ~pool_result.ready
    /\ pool_result.value = << >>
    /\ pc = "idle"
    /\ data = <<>>
    /\ upload_success = << >>
    /\ gen = "idle"
    /\ zip_buffer = ZipFile_new
    /\ returned = <<>>
    /\ response = <<>>
    /\ chksums = <<>>
    /\ validated_checksum = "None"
    /\ validated_upload = "None"
    /\ ~deleted
    /\ ~exported
    /\ emails = 0

\* C26, no transfer without a dataset: as long as dataset_deposit_url is
\* unset nothing of the transfer is started, and when import_files has
\* returned without a dataset the only status it has recorded is
\* (CREATE_DATASET, DATASET_UNKNOWN), after the two of create_dataset.
C26_NoTransferWithoutDataset ==
    dataset_deposit_url = "None" =>
        /\ NothingTransferred
        /\ (data_export /\ epc \in {"returned", "done"} /\ raised = "None") =>
              /\ Len(status) = 3
              /\ status[2] = <<"CREATE_DATASET", "CREATE_DATASET_FAILED">>
              /\ status[3] = <<"CREATE_DATASET", "DATASET_UNKNOWN">>

C26_Witness ==
    /\ dataset_deposit_url = "None"
    /\ data_export
    /\ collection # <<>>
    /\ outcome = "returned"
    /\ status[Len(status)] = <<"CREATE_DATASET", "DATASET_UNKNOWN">>

(***************************************************************************)
(* Finalization (SpecDoExport).                                            *)
(***************************************************************************)
\* The number of _final_report calls.
FinalReports ==
    Cardinality({i \in 1..Len(status) : status[i] = <<"FINALIZE", "EXPORTED">>})

C27_FinalizedOnSuccess ==
    /\ FinalReports <= 1
    /\ emails = FinalReports
    /\ exported <=> FinalReports = 1
    /\ FinalReports = 1 =>
          /\ dataset_deposit_url # "None"
          /\ raised = "None"
          /\ data_export =>
                /\ response # <<>>
                /\ validated_checksum = "True"
                /\ validated_upload = "True"
                /\ epc \in {"returned", "done"}

\* C27, finalization happens at most once and only on success: in one run of
\* do_export, _final_report and email_confirmation are each executed at most
\* once, only when the dataset has been created and, with data_export, only
\* after the upload has been answered and both validations have returned
\* True.
C27_FinalizationAtMostOnce ==
    /\ []C27_FinalizedOnSuccess
    /\ [][emails' # emails =>
            /\ emails = 0
            /\ emails' = 1
            /\ data_export => (response # <<>> /\ epc = "validated")]_vars

C27_Witness ==
    /\ data_export
    /\ collection # <<>>
    /\ FinalReports = 1
    /\ emails = 1
    /\ outcome = "returned"

====
